---- MODULE Spec2Model ----
(***************************************************************************)
(* A model of zvi_reader.ZVI, the reader of AxioVision ZVI image sequences *)
(* stored as numbered streams of an OLE compound file.                     *)
(*                                                                         *)
(* A string is a sequence of one-character strings, so that the regular    *)
(* expression match, the integer parse and the label formatting are        *)
(* computed character by character as the code computes them.  A stream    *)
(* path is a sequence of such strings, as OleFileIO.listdir returns it.    *)
(***************************************************************************)
EXTENDS Integers, Sequences, FiniteSets

VARIABLES
    ole,          \* the compound file on disk: validity, stream listing, stream bytes
    status,       \* "new" before ZVI(...), then "constructed" or "failed"
    error,        \* the exception that ended the last call, or "none"
    io,           \* the container operations __init__ performed, in order
    args,         \* the arguments ZVI(...) was called with
    _im_sz,       \* self._im_sz
    _dtype,       \* self._dtype
    _toc,         \* self._toc
    _len,         \* self._len
    process_func, \* self.process_func
    req,          \* the key of the last video[key], or None
    result,       \* what the last video[key] returned or raised
    lastRead,     \* the stream label the last video[key] opened, or <<>>
    prevOut,      \* the result of the preceding video[key] when it had the same key
    buf,          \* an array handed to np.roll
    rolled        \* what np.roll returned for it

vars == <<ole, status, error, io, args, _im_sz, _dtype, _toc, _len, process_func,
          req, result, lastRead, prevOut, buf, rolled>>

-----------------------------------------------------------------------------
(* Bounds of the model.                                                    *)

MaxListing == 3     \* streams in a container
MaxWidth == 2       \* shape[0] of the caller's shape
MaxHeight == 2      \* shape[1] of the caller's shape
ShortBytes == 3     \* byte length of a short stream
LongBytes == 8      \* byte length of a long stream
MaxKey == 4         \* keys -MaxKey..MaxKey are requested
MaxRows == 2        \* rows of an array handed to np.roll alone
MaxCols == 4        \* columns of an array handed to np.roll alone

(* Program constants.                                                      *)

RollBy == 162       \* np.roll(..., -162)
BytesPerSample == 2 \* 'I;16L' and np.uint16: two bytes a sample
SampleMax == 65535  \* largest uint16

None == "None"

-----------------------------------------------------------------------------
(* Strings.                                                                *)

Digits == <<"0", "1", "2", "3", "4", "5", "6", "7", "8", "9">>

IsDigit(c) == \E d \in 1..10 : Digits[d] = c

DigitVal(c) == (CHOOSE d \in 1..10 : Digits[d] = c) - 1

S_Image == <<"I", "m", "a", "g", "e">>
S_ItemOpen == <<"I", "t", "e", "m", "(">>
S_Close == <<")">>
S_Contents == <<"C", "o", "n", "t", "e", "n", "t", "s">>
S_Other == <<"T", "h", "u", "m", "b">>

(* int(text) of a run of decimal digits.                                   *)
RECURSIVE ParseInt(_)
ParseInt(ds) ==
    IF ds = <<>> THEN 0
    ELSE 10 * ParseInt(SubSeq(ds, 1, Len(ds) - 1)) + DigitVal(ds[Len(ds)])

(* '{0}'.format(j) of an integer.                                          *)
RECURSIVE FormatNat(_)
FormatNat(n) ==
    IF n < 10 THEN <<Digits[n + 1]>>
    ELSE FormatNat(n \div 10) \o <<Digits[(n % 10) + 1]>>

FormatInt(j) == IF j < 0 THEN <<"-">> \o FormatNat(-j) ELSE FormatNat(j)

(* The length of the longest run of digits of s that starts at position p. *)
RECURSIVE DigitRun(_, _)
DigitRun(s, p) ==
    IF p <= Len(s) /\ IsDigit(s[p]) THEN 1 + DigitRun(s, p + 1) ELSE 0

(* re.match('Item\((\d+)\)', s): the pattern is matched at the start of s  *)
(* and nothing anchors its end.  matched is FALSE for None; group1 is the  *)
(* text of group(1).                                                       *)
ReMatch(s) ==
    LET p == Len(S_ItemOpen) + 1
        k == DigitRun(s, p)
    IN  IF /\ Len(s) >= Len(S_ItemOpen)
           /\ SubSeq(s, 1, Len(S_ItemOpen)) = S_ItemOpen
           /\ k >= 1
           /\ p + k <= Len(s)
           /\ s[p + k] = ")"
        THEN [matched |-> TRUE, group1 |-> SubSeq(s, p, p + k - 1)]
        ELSE [matched |-> FALSE, group1 |-> <<>>]

(* 'Item({0})'.format(j)                                                   *)
ItemName(j) == S_ItemOpen \o FormatInt(j) \o S_Close

(* stream_label = ['Image', 'Item({0})'.format(j), 'Contents']             *)
StreamLabel(j) == <<S_Image, ItemName(j), S_Contents>>

-----------------------------------------------------------------------------
(* The compound file.                                                      *)

(* Stream paths a container may hold.                                      *)
Pool == <<
    <<S_Image, ItemName(0), S_Contents>>,
    <<S_Image, ItemName(1), S_Contents>>,
    <<S_Image, ItemName(3), S_Contents>>,
    <<S_Image, ItemName(2) \o <<"x">>, S_Contents>>,
    <<S_Image, S_Contents>>,
    <<S_Other, ItemName(5), S_Contents>>,
    <<S_Image>> >>

IsPrefix(p, q) == Len(p) < Len(q) /\ SubSeq(q, 1, Len(p)) = p

(* A directory entry is a stream or a storage, never both: no stream path  *)
(* is the storage path of another stream, and no path is listed twice.     *)
WellFormed(streams) ==
    \A a, b \in 1..Len(streams) :
        a # b => streams[a] # streams[b] /\ ~IsPrefix(streams[a], streams[b])

(* The listing that takes paths of the pool in the order g.                *)
Listing(pool, g) == [i \in DOMAIN g |-> pool[g[i]]]

(* Short and long streams alternate, starting with either.                 *)
Sizes(n, first) ==
    [i \in 1..n |-> IF (i + first) % 2 = 0 THEN ShortBytes ELSE LongBytes]

Unopenable == [valid |-> FALSE, streams |-> <<>>, sizes |-> <<>>]

(* ole is a container that cannot be opened, or one that lists at most     *)
(* MaxListing paths of the pool, well-formed, in any order.                *)
IsContainer(c) ==
    \/ c = Unopenable
    \/ \E pool \in {Pool}, n \in 0..MaxListing :
           \E g \in [1..n -> 1..Len(pool)], first \in {0, 1} :
               /\ WellFormed(Listing(pool, g))
               /\ c = [valid |-> TRUE, streams |-> Listing(pool, g),
                       sizes |-> Sizes(n, first)]

(* Byte k of the i-th stream of the listing.                               *)
StreamBytes(c, i) == [k \in 1..c.sizes[i] |-> (101 * i + 37 * k) % 256]

(* OleFileIO.openstream(label).read(): the bytes of the stream of that     *)
(* path, or IOError when the container holds no such stream.               *)
OpenStream(c, label) ==
    IF \E i \in 1..Len(c.streams) : c.streams[i] = label
    THEN [found |-> TRUE,
          data |-> StreamBytes(c, CHOOSE i \in 1..Len(c.streams) : c.streams[i] = label)]
    ELSE [found |-> FALSE, data |-> <<>>]

-----------------------------------------------------------------------------
(* Decoding.                                                               *)

(* Image.fromstring('I;16L', size, data): size is (width, height); the raw *)
(* decoder needs width * height samples of two bytes, low byte first, and  *)
(* raises ValueError("not enough image data") when there are fewer; bytes  *)
(* beyond the image are left unread.                                       *)
FromString(size, data) ==
    LET n == size[1] * size[2]
    IN  IF Len(data) < n * BytesPerSample
        THEN [ok |-> FALSE, size |-> size, pixels |-> <<>>]
        ELSE [ok |-> TRUE, size |-> size,
              pixels |-> [k \in 1..n |->
                             data[BytesPerSample * k - 1] + 256 * data[BytesPerSample * k]]]

(* np.asarray(img, dtype): an array of shape (height, width), that is      *)
(* (img.size[1], img.size[0]), over the pixels in row-major order.         *)
AsArray(img) == [shape |-> <<img.size[2], img.size[1]>>, flat |-> img.pixels]

(* A rotation in the opposite direction.                                   *)
RollFlat_reversed(flat, shift) ==
    LET n == Len(flat)
        s == (-shift) % n
        indexes == [i \in 1..n |-> IF i <= s THEN n - s + i ELSE i - s]
    IN  [i \in 1..n |-> flat[indexes[i]]]

(* np.roll(a, shift) without an axis: the array is flattened, rotated and  *)
(* given its shape back: n = a.size; shift %= n;                           *)
(* indexes = concatenate((arange(n - shift, n), arange(n - shift))).       *)
RollFlat(flat, shift) ==
    LET n == Len(flat)
        s == shift % n
        indexes == [i \in 1..n |-> IF i <= s THEN n - s + i ELSE i - s]
    IN  [i \in 1..n |-> flat[indexes[i]]]

Roll(a, shift) == [shape |-> a.shape, flat |-> RollFlat(a.flat, shift)]

(* self.process_func(arr): the identity that _validate_process_func puts   *)
(* in place of None, or the caller's function (here: the negative image).  *)
ApplyProcess(f, a) ==
    IF f = "identity" THEN a
    ELSE [shape |-> a.shape, flat |-> [k \in 1..Len(a.flat) |-> SampleMax - a.flat[k]]]

NoArray == [shape |-> <<0, 0>>, flat |-> <<>>]

NoResult == [kind |-> "none", err |-> "none", arr |-> NoArray, frame_no |-> 0, read |-> <<>>]

Raise(e, label) ==
    [kind |-> "raise", err |-> e, arr |-> NoArray, frame_no |-> 0, read |-> label]

(* ZVI.get_frame(j) on the object (c, im_sz, pf).  read is the label of    *)
(* the stream it asked the container for.                                  *)
GetFrame(c, im_sz, pf, j) ==
    LET stream_label == StreamLabel(j)
        opened == OpenStream(c, stream_label)
        img == FromString(im_sz, opened.data)
        arr == Roll(AsArray(img), -RollBy)
    IN  IF ~opened.found THEN Raise("MissingFrameError", stream_label)
        ELSE IF ~img.ok THEN Raise("DecodeError", stream_label)
        ELSE [kind |-> "frame", err |-> "none", arr |-> ApplyProcess(pf, arr),
              frame_no |-> j, read |-> stream_label]

-----------------------------------------------------------------------------
(* Construction.                                                           *)

(* The loop of __init__ over self._streams from its i-th entry on, toc     *)
(* being self._toc so far.  stream[1] of a path of one component raises    *)
(* IndexError.                                                             *)
RECURSIVE BuildToc(_, _, _)
BuildToc(streams, i, toc) ==
    IF i > Len(streams) THEN [err |-> "none", toc |-> toc]
    ELSE LET stream == streams[i]
         IN  IF stream[1] # S_Image THEN BuildToc(streams, i + 1, toc)
             ELSE IF Len(stream) < 2 THEN [err |-> "IndexError", toc |-> toc]
             ELSE LET m == ReMatch(stream[2])
                  IN  IF ~m.matched THEN BuildToc(streams, i + 1, toc)
                      ELSE BuildToc(streams, i + 1, Append(toc, ParseInt(m.group1)))

(* max(seq) of a non-empty list: the running maximum from the left.        *)
RECURSIVE MaxFrom(_, _, _)
MaxFrom(seq, i, best) ==
    IF i > Len(seq) THEN best
    ELSE MaxFrom(seq, i + 1, IF seq[i] > best THEN seq[i] ELSE best)

(* A max that keeps the last element instead of the largest.               *)
PyMax_last(seq) == seq[Len(seq)]

PyMax(seq) == MaxFrom(seq, 2, seq[1])

(* FramesSequence._validate_process_func: None becomes the identity.       *)
ValidateProcessFunc(f) == IF f = None THEN "identity" ELSE f

(* FramesSequence._as_grey raises when as_grey comes with a process_func.  *)
AsGreyRaises(as_grey, f) == as_grey /\ f # None

NoObject(e, steps) ==
    [status |-> "failed", error |-> e, io |-> steps, im_sz |-> <<0, 0>>,
     dtype |-> "none", toc |-> <<>>, len |-> 0, process_func |-> "none"]

(* An __init__ that checks the options before it touches the container.    *)
NewZVI_validateFirst(c, shape, f, as_grey) ==
    LET built == BuildToc(c.streams, 1, <<>>)
    IN  IF AsGreyRaises(as_grey, f) THEN NoObject("ConfigurationError", <<>>)
        ELSE IF ~c.valid THEN NoObject("ContainerOpenError", <<"open">>)
        ELSE IF built.err # "none" THEN NoObject(built.err, <<"open", "listdir">>)
        ELSE IF built.toc = <<>>
             THEN NoObject("EmptyIndexError", <<"open", "listdir", "toc">>)
        ELSE [status |-> "constructed", error |-> "none",
              io |-> <<"open", "listdir", "toc", "max">>,
              im_sz |-> shape, dtype |-> "uint16", toc |-> built.toc,
              len |-> PyMax(built.toc), process_func |-> ValidateProcessFunc(f)]

(* ZVI.__init__(filename, shape, process_func, dtype, as_grey) on the      *)
(* container c: the object it leaves, or the exception that ends it, and   *)
(* the steps it took up to there.                                          *)
NewZVI(c, shape, f, as_grey) ==
    LET built == BuildToc(c.streams, 1, <<>>)
    IN  IF ~c.valid THEN NoObject("ContainerOpenError", <<"open">>)
        ELSE IF built.err # "none" THEN NoObject(built.err, <<"open", "listdir">>)
        ELSE IF built.toc = <<>>
             THEN NoObject("EmptyIndexError", <<"open", "listdir", "toc">>)
        ELSE IF AsGreyRaises(as_grey, f)
             THEN NoObject("ConfigurationError", <<"open", "listdir", "toc", "max">>)
        ELSE [status |-> "constructed", error |-> "none",
              io |-> <<"open", "listdir", "toc", "max">>,
              im_sz |-> shape, dtype |-> "uint16", toc |-> built.toc,
              len |-> PyMax(built.toc), process_func |-> ValidateProcessFunc(f)]

-----------------------------------------------------------------------------
(* The sequence.                                                           *)

(* A length one past self._len.                                            *)
PyLen_plusOne == _len + 1

(* ZVI.__len__                                                             *)
PyLen == _len

(* ZVI.frame_shape                                                         *)
frame_shape == _im_sz

(* ZVI.pixel_type                                                          *)
pixel_type == _dtype

(* FramesSequence.__getitem__(key) for an integer key: IndexError when key *)
(* is below -len or not below len, else get_frame of the key, counted from *)
(* the end when negative.                                                  *)
GetItemResult(key) ==
    LET n == PyLen
    IN  IF key < -n \/ key >= n THEN Raise("IndexError", <<>>)
        ELSE GetFrame(ole, _im_sz, process_func, IF key >= 0 THEN key ELSE n + key)

-----------------------------------------------------------------------------
(* The state machine.                                                      *)

Shapes == (1..MaxWidth) \X (1..MaxHeight)

NoArgs == [shape |-> <<0, 0>>, process_func |-> None, as_grey |-> FALSE]

Idle ==
    /\ status = "new"
    /\ error = "none"
    /\ io = <<>>
    /\ args = NoArgs
    /\ _im_sz = <<0, 0>>
    /\ _dtype = "none"
    /\ _toc = <<>>
    /\ _len = 0
    /\ process_func = "none"
    /\ req = <<>>
    /\ result = NoResult
    /\ lastRead = <<>>
    /\ prevOut = NoResult

Init ==
    /\ IsContainer(ole)
    /\ Idle
    /\ buf = NoArray
    /\ rolled = NoArray

(* video = ZVI(filename, shape, process_func, as_grey=as_grey)             *)
Construct(shape, f, as_grey) ==
    /\ status = "new"
    /\ LET new == NewZVI(ole, shape, f, as_grey)
       IN  /\ status' = new.status
           /\ error' = new.error
           /\ io' = new.io
           /\ _im_sz' = new.im_sz
           /\ _dtype' = new.dtype
           /\ _toc' = new.toc
           /\ _len' = new.len
           /\ process_func' = new.process_func
    /\ args' = [shape |-> shape, process_func |-> f, as_grey |-> as_grey]
    /\ UNCHANGED <<ole, req, result, lastRead, prevOut, buf, rolled>>

(* A video[key] that keeps the shape of the array it decoded as the frame  *)
(* shape.                                                                  *)
GetItem_keepsShape(key) ==
    /\ status = "constructed"
    /\ LET r == GetItemResult(key)
       IN  /\ result' = r
           /\ error' = r.err
           /\ lastRead' = r.read
           /\ _im_sz' = IF r.kind = "frame" THEN r.arr.shape ELSE _im_sz
    /\ req' = <<key>>
    /\ prevOut' = IF req = <<key>> THEN result ELSE NoResult
    /\ UNCHANGED <<ole, status, io, args, _dtype, _toc, _len, process_func, buf, rolled>>

(* video[key]                                                              *)
GetItem(key) ==
    /\ status = "constructed"
    /\ LET r == GetItemResult(key)
       IN  /\ result' = r
           /\ error' = r.err
           /\ lastRead' = r.read
    /\ req' = <<key>>
    /\ prevOut' = IF req = <<key>> THEN result ELSE NoResult
    /\ UNCHANGED <<ole, status, io, args, _im_sz, _dtype, _toc, _len, process_func,
                   buf, rolled>>

Next ==
    \/ \E shape \in Shapes, f \in {None, "negative"}, as_grey \in BOOLEAN :
           Construct(shape, f, as_grey)
    \/ \E key \in (-MaxKey)..MaxKey : GetItem(key)

Spec == Init /\ [][Next]_vars

(* np.roll alone, on every small array of samples 0 and 1.                 *)
IsArray(a) ==
    \E h \in 1..MaxRows, w \in 1..MaxCols : \E x \in [1..(h * w) -> {0, 1}] :
        a = [shape |-> <<h, w>>, flat |-> x]

InitRoll ==
    /\ ole = Unopenable
    /\ Idle
    /\ IsArray(buf)
    /\ rolled = NoArray

(* rolled = np.roll(buf, -162)                                             *)
ApplyRoll ==
    /\ rolled = NoArray
    /\ rolled' = Roll(buf, -RollBy)
    /\ UNCHANGED <<ole, status, error, io, args, _im_sz, _dtype, _toc, _len,
                   process_func, req, result, lastRead, prevOut, buf>>

NextRoll == ApplyRoll

SpecRoll == InitRoll /\ [][NextRoll]_vars

-----------------------------------------------------------------------------
(* Vocabulary of the properties.                                           *)

ItemNumbers == 0..(Len(Digits) - 1)

StartsWith(s, prefix) == Len(s) >= Len(prefix) /\ SubSeq(s, 1, Len(prefix)) = prefix

(* The item-numbers n for which some path is Image/Item(n)...: its second  *)
(* component begins with the text Item(n).                                 *)
Recognized(streams) ==
    {n \in ItemNumbers :
        \E i \in 1..Len(streams) :
            /\ Len(streams[i]) >= 2
            /\ streams[i][1] = S_Image
            /\ StartsWith(streams[i][2], ItemName(n))}

(* The item-numbers n for which some path is Image/Item(n) exactly.        *)
RecognizedExactly(streams) ==
    {n \in ItemNumbers :
        \E i \in 1..Len(streams) :
            /\ Len(streams[i]) >= 2
            /\ streams[i][1] = S_Image
            /\ streams[i][2] = ItemName(n)}

SetMax(S) == CHOOSE m \in S : \A x \in S : x <= m

Range(seq) == {seq[i] : i \in 1..Len(seq)}

Permutations(n) == {p \in [1..n -> 1..n] : \A a, b \in 1..n : a # b => p[a] # p[b]}

Permuted(c, p) ==
    [valid |-> c.valid,
     streams |-> [i \in 1..Len(c.streams) |-> c.streams[p[i]]],
     sizes |-> [i \in 1..Len(c.streams) |-> c.sizes[p[i]]]]

(* The stream Image/Item(j)/Contents exists and holds a whole frame.       *)
HasFrame(j) ==
    /\ OpenStream(ole, StreamLabel(j)).found
    /\ Len(OpenStream(ole, StreamLabel(j)).data) >= _im_sz[1] * _im_sz[2] * BytesPerSample

Both == args.as_grey /\ args.process_func # None

Normalized(key) == IF key < 0 THEN _len + key ELSE key

-----------------------------------------------------------------------------
C2_EveryRecognizedFrameReadable ==
    (status = "constructed" /\ req # <<>> /\ req[1] >= 0) =>
        /\ (req[1] \in Range(_toc) /\ HasFrame(req[1])) => result.kind = "frame"
        /\ (req[1] < PyLen /\ req[1] \notin Range(_toc)) => result.err = "MissingFrameError"

(* C3: get(key) raises IndexError, reading no stream, exactly when the key *)
(* counted from the end if negative is below 0 or not below the discovered *)
(* length; otherwise it reads the stream of the normalized index, so that  *)
(* get(-1) is get(length() - 1).                                           *)
C3_IndexValidated ==
    (status = "constructed" /\ req # <<>>) =>
        LET j == Normalized(req[1])
        IN  IF j < 0 \/ j >= _len
            THEN result.err = "IndexError" /\ result.kind = "raise" /\ lastRead = <<>>
            ELSE /\ result.err # "IndexError"
                 /\ lastRead = StreamLabel(j)
                 /\ result = GetFrame(ole, _im_sz, process_func, j)

(* C3 witness: get(length()) was refused although that frame is stored.    *)
C3_Witness ==
    /\ status = "constructed"
    /\ req = <<_len>>
    /\ result.err = "IndexError"
    /\ HasFrame(_len)

(* C4: for 0 <= j < length(), get(j) returns a frame of shape exactly      *)
(* frame_shape() tagged j, or raises MissingFrameError or DecodeError.     *)
C4_ShapeOrError ==
    (status = "constructed" /\ req # <<>> /\ req[1] >= 0 /\ req[1] < PyLen) =>
        \/ /\ result.kind = "frame"
           /\ result.arr.shape = frame_shape
           /\ result.frame_no = req[1]
        \/ /\ result.kind = "raise"
           /\ result.err \in {"MissingFrameError", "DecodeError"}

(* C5 as claimed: constructing with both a processing transform and the    *)
(* greyscale flag fails with ConfigurationError before any I/O.            *)
C5_ConfigBeforeIO ==
    (status # "new" /\ Both) => (error = "ConfigurationError" /\ io = <<>>)

(* C5 amended: constructing with both never yields a sequence; it fails    *)
(* with ConfigurationError exactly when the container opens, the index is  *)
(* built without error and is not empty, and then only after the container *)
(* was opened, its streams listed, the index built and its maximum taken.  *)
C5_ConfigAfterIndex ==
    (status # "new" /\ Both) =>
        /\ status = "failed"
        /\ error = "ConfigurationError" <=>
               /\ ole.valid
               /\ ~ \E i \in 1..Len(ole.streams) : ole.streams[i] = <<S_Image>>
               /\ Recognized(ole.streams) # {}
        /\ error = "ConfigurationError" => io = <<"open", "listdir", "toc", "max">>

(* C5 witness: a construction refused for its options.                     *)
C5_Witness == status = "failed" /\ Both /\ error = "ConfigurationError"

(* C6: constructing over a container with no recognized frame stream fails *)
(* with EmptyIndexError.                                                   *)
C6_EmptyIndexError ==
    (status # "new" /\ ole.valid /\ Recognized(ole.streams) = {}) =>
        (status = "failed" /\ error = "EmptyIndexError")

(* C7: when the recognized item-numbers are 0..n, len(video) is the number *)
(* of frames n + 1 and video[-1] is the frame of item-number n.            *)
C7_LenIsFrameCount ==
    (status = "constructed" /\ Range(_toc) = 0..SetMax(Range(_toc))) =>
        /\ PyLen = Cardinality(Range(_toc))
        /\ (req = <<-1>> /\ HasFrame(SetMax(Range(_toc)))) =>
               (result.kind = "frame" /\ result.frame_no = SetMax(Range(_toc)))

(* C8: building the index never fails on a path, and the recognized set is *)
(* exactly the item-numbers of the paths Image/Item(<digits>).             *)
C8_FilterNeverFails ==
    (status # "new" /\ ole.valid) =>
        /\ status = "failed" => error # "IndexError"
        /\ status = "constructed" => Range(_toc) = RecognizedExactly(ole.streams)

(* C9: np.roll(buf, -162) keeps the shape and puts at flat position i the  *)
(* sample of flat position (i + 162) mod N, and rolling the result by +162 *)
(* gives buf back.                                                         *)
C9_TrueRotation ==
    rolled # NoArray =>
        LET N == Len(buf.flat)
        IN  /\ rolled.shape = buf.shape
            /\ Len(rolled.flat) = N
            /\ \A i \in 0..(N - 1) : rolled.flat[i + 1] = buf.flat[((i + RollBy) % N) + 1]
            /\ Roll(rolled, RollBy) = buf

(* C9 witness: a rolled array of eight samples that differs from its input *)
(* and from the input rolled the other way.                                *)
C9_Witness ==
    /\ rolled # NoArray
    /\ Len(buf.flat) = 8
    /\ rolled.flat # buf.flat
    /\ rolled.flat # RollFlat(buf.flat, RollBy)

(* C10: a get changes neither the container nor any field of the sequence, *)
(* and a get repeated with the same key returns what the first returned.   *)
C10_GetChangesNothing ==
    /\ [][status = "constructed" =>
            /\ ole' = ole
            /\ status' = status
            /\ _toc' = _toc
            /\ PyLen' = PyLen
            /\ frame_shape' = frame_shape
            /\ pixel_type' = pixel_type
            /\ process_func' = process_func]_vars
    /\ [](prevOut # NoResult => prevOut = result)

(* C10 witness: a frame was decoded twice in a row.                        *)
C10_Witness ==
    /\ prevOut.kind = "frame"
    /\ result.kind = "frame"
    /\ prevOut.arr.shape[1] # prevOut.arr.shape[2]

====
